---- MODULE Spec2Model ----
(***************************************************************************)
(* Model of the PDF document splitter (pdf_splitter.py, main_api.py).      *)
(*                                                                         *)
(* Five specifications share the variables below:                          *)
(*   SpecSplit   DocumentProcessor.split_pdf_documents on one source PDF   *)
(*   SpecCut     direct calls of split_pdf_by_pages / cut_pdf_by_page_...  *)
(*   SpecBatch   DocumentProcessor.split_pdfs_by_final_paths               *)
(*   SpecFolder  DocumentProcessor.process_folder                          *)
(*   SpecSubprocess  process_folder_subprocess, the entry point of a pass  *)
(*                                                                         *)
(* A PDF file is the sequence of the source page numbers it holds; the     *)
(* file system `disk` maps each existing path to its file.  A path is a    *)
(* tuple of the components the code joins into the file name.              *)
(***************************************************************************)
EXTENDS Integers, Sequences, FiniteSets, TLC

VARIABLES
    disk,             \* the file system: path -> sequence of page numbers
    pc,               \* position of the running operation
    documents,        \* analysis_result["documents"] (mutated by the split)
    candidates,       \* the classifier's bucket list as it was returned
    total_pages,      \* total_pages_in_pdf of split_pdf_documents
    doc_index,        \* position of the extraction loop in documents
    output_files,     \* output_files of split_pdf_documents
    written_pages,    \* written_pages of split_pdf_documents
    extractions,      \* log of the split_pdf_by_pages calls of the run
    raised,           \* split_pdf_documents ended in its except branch
    pdf_path,         \* the pdf_path argument of split_pdf_documents
    usage,            \* the token counters attached to analysis_result
    request,          \* SpecCut: the call being made
    result,           \* SpecCut: what the call returned
    disk_before,      \* SpecCut: the file system when the call was made
    final_paths,      \* SpecBatch: the flat list of cut instructions
    item_index,       \* SpecBatch: position of the loop in final_paths
    split_pdf_array,  \* SpecBatch: paths produced so far
    errors,           \* SpecBatch: error strings so far
    outcomes,         \* SpecBatch: per item, what became of it
    old_file_paths,   \* SpecBatch: per group, the files it supersedes
    deleted,          \* SpecBatch: files deleted so far
    listing,          \* SpecFolder: os.listdir(folder_path)
    file_index,       \* SpecFolder: position of the loop in the listing
    results,          \* SpecFolder: the results dict of process_folder
    stages,           \* SpecFolder: per file, the pipeline stages run on it
    input_json,       \* SpecSubprocess: the input of the pass
    response_files,   \* SpecSubprocess: the file_<timestamp>.json files written
    token_collection  \* SpecSubprocess: the records of the usage sink

splitVars  == <<documents, candidates, total_pages, doc_index, output_files,
                written_pages, extractions, raised, pdf_path, usage>>
cutVars    == <<request, result, disk_before>>
batchVars  == <<final_paths, item_index, split_pdf_array, errors, outcomes,
                old_file_paths, deleted>>
folderVars == <<listing, file_index, results, stages>>
subprocessVars == <<input_json, response_files, token_collection>>
vars       == <<disk, pc, splitVars, cutVars, batchVars, folderVars,
                subprocessVars>>

----------------------------------------------------------------------------
(* Bounds of the model *)

MaxPages   == 3   \* most pages a source PDF has
MaxBuckets == 2   \* most buckets the classifier returns
MaxListed  == 2   \* most page entries the classifier lists over all buckets
MaxItems   == 2   \* most cut instructions of a batch
MaxFiles   == 2   \* most entries of the folder listing
MaxTokens  == 1   \* most prompt tokens one analysis reports

----------------------------------------------------------------------------
(* Python values and helpers *)

None == "<None>"

Range(s) == {s[i] : i \in DOMAIN s}

SetMin(S) == CHOOSE x \in S : \A y \in S : x <= y
SetMax(S) == CHOOSE x \in S : \A y \in S : x >= y

\* sorted(list(S)) of a set of integers
RECURSIVE SortedList(_)
SortedList(S) ==
    IF S = {} THEN <<>> ELSE <<SetMin(S)>> \o SortedList(S \ {SetMin(S)})

\* sorted(l) of a list of integers (duplicates kept)
RECURSIVE Insert(_, _)
Insert(x, s) ==
    IF s = <<>> THEN <<x>>
    ELSE IF x <= Head(s) THEN <<x>> \o s
    ELSE <<Head(s)>> \o Insert(x, Tail(s))

RECURSIVE Sorted(_)
Sorted(l) == IF l = <<>> THEN <<>> ELSE Insert(Head(l), Sorted(Tail(l)))

\* list(range(a, b))
PyRange(a, b) == [k \in 1..(IF b > a THEN b - a ELSE 0) |-> a + k - 1]

\* os.path.splitext(os.path.basename(path))[0] of the file names of the model
Stem(filename) ==
    CASE filename = "combined.pdf" -> "combined"
      [] filename = "a.pdf" -> "a"
      [] filename = "scan.pdf" -> "scan"
      [] filename = "SCAN.PDF" -> "SCAN"
      [] filename = "photo.png" -> "photo"
      [] filename = "notes.txt" -> "notes"
      [] OTHER -> filename

\* filename.rsplit('.', 1)[1].lower(), "" for a name without a dot
LowerExtension(filename) ==
    CASE filename \in {"combined.pdf", "a.pdf", "scan.pdf", "SCAN.PDF"} -> "pdf"
      [] filename = "photo.png" -> "png"
      [] filename = "notes.txt" -> "txt"
      [] OTHER -> ""

\* the file system after writing file `content` at `path`
WriteFile(d, path, content) ==
    [p \in DOMAIN d \cup {path} |-> IF p = path THEN content ELSE d[p]]

\* get_pdf_page_count: 0 when the file can not be read
GetPdfPageCount(d, path) == IF path \in DOMAIN d THEN Len(d[path]) ELSE 0

----------------------------------------------------------------------------
(* split_pdf_by_pages *)

\* pdf_reader.pages[i] of a PDF of n pages raises IndexError: a negative index
\* counts from the end, and one beyond the first page is out of range
PageIndexRaises(lo, hi, n) ==
    \E i \in Range(PyRange(lo - 1, hi)) : i < n /\ i < 0 /\ i + n < 0

\* the writer getting the two ends of the range only
AddedPages_EndsOnly(lo, hi, n) ==
    SelectSeq(IF lo = hi THEN <<lo>> ELSE <<lo, hi>>, LAMBDA p : p >= 1 /\ p <= n)

\* the pages the loop of split_pdf_by_pages adds to the writer, in order
AddedPages(lo, hi, n) ==
    LET idx == SelectSeq(PyRange(lo - 1, hi), LAMBDA i : i < n)
    IN  [k \in DOMAIN idx |-> IF idx[k] >= 0 THEN idx[k] + 1 ELSE idx[k] + n + 1]

\* split_pdf_by_pages(pdf_path = source, page_ranges, output_dir, filename); io_ok is
\* whether the source could be opened and the output written.  A failed call
\* returns None (ok = FALSE) and leaves the file system as it was.
SplitPdfByPages(d, source, page_ranges, out_path, io_ok) ==
    LET lo == page_ranges[1]
        hi == page_ranges[2]
        n  == GetPdfPageCount(d, source)
    IN  IF source \notin DOMAIN d \/ ~io_ok \/ PageIndexRaises(lo, hi, n)
        THEN [ok |-> FALSE, path |-> out_path, disk |-> d]
        ELSE [ok |-> TRUE, path |-> out_path,
              disk |-> WriteFile(d, out_path, AddedPages(lo, hi, n))]

----------------------------------------------------------------------------
(* split_pdf_documents *)

SourcePath == <<"combined.pdf">>

Bucket(type, pages, name, reason) ==
    [document_type |-> type, page_numbers |-> pages,
     suggested_filename |-> name, reason |-> reason]

\* processed_pages: every page number some bucket lists
ProcessedPages(docs) == UNION {Range(docs[i].page_numbers) : i \in DOMAIN docs}

UnclassifiedBucket(pages) ==
    Bucket("Unclassified Document", pages, "unclassified_document",
           "Pages not classified by the model.")

\* ReconcileDocuments without the gap fill: the buckets as the classifier gave them
ReconcileDocuments_NoGapFill(n, docs) == docs

\* ReconcileDocuments dropping from a bucket the pages an earlier bucket claims
ReconcileDocuments_Dedup(n, docs) ==
    LET deduped == [i \in DOMAIN docs |->
                      [docs[i] EXCEPT !.page_numbers =
                          SelectSeq(docs[i].page_numbers,
                              LAMBDA p : \A j \in 1..(i - 1) :
                                  p \notin Range(docs[j].page_numbers))]]
        unclassified_pages == SortedList((1..n) \ ProcessedPages(docs))
    IN  IF unclassified_pages # <<>>
        THEN Append(deduped, UnclassifiedBucket(unclassified_pages))
        ELSE deduped

\* ReconcileDocuments counting only the classifier's own buckets as covered
ReconcileDocuments_Reappend(n, docs) ==
    LET own == SelectSeq(docs, LAMBDA d : d.document_type # "Unclassified Document")
        unclassified_pages == SortedList((1..n) \ ProcessedPages(own))
    IN  IF unclassified_pages # <<>>
        THEN Append(docs, UnclassifiedBucket(unclassified_pages))
        ELSE docs

\* the reconciliation of split_pdf_documents: the buckets after the append
ReconcileDocuments(n, docs) ==
    LET all_pages          == 1..n
        unclassified_pages == SortedList(all_pages \ ProcessedPages(docs))
    IN  IF unclassified_pages # <<>>
        THEN Append(docs, UnclassifiedBucket(unclassified_pages))
        ELSE docs

\* document_type.lower().replace(' ', '-').replace('_', '-')
Slugify(type) ==
    CASE type = "Invoice" -> "invoice"
      [] type = "Unclassified Document" -> "unclassified-document"
      [] OTHER -> type

\* the file the bucket is written to: <original>_<slug>_<sorted pages>.pdf
SplitPath(path, slug, pages) == <<Stem(path[1]), slug, Sorted(pages)>>

\* The token counters analyze_pdf_with_gemini attaches to its result: all
\* None when the response carries no usage metadata (given = FALSE, the
\* numbers then stand for None), else the counts of the response.
NoUsage ==
    [given |-> FALSE, input_tokens |-> 0, output_tokens |-> 0, total_tokens |-> 0]

Usage(prompt, answer) ==
    [given |-> TRUE, input_tokens |-> prompt, output_tokens |-> answer,
     total_tokens |-> prompt + answer]

TokenUsages == {NoUsage} \cup {Usage(i, 1) : i \in 1..MaxTokens}

ArtifactEntry(path, type, pages, name) ==
    [path |-> path, document_type |-> type, page_numbers |-> pages,
     original_file_path |-> pdf_path, original_filename |-> name,
     usage |-> usage]

\* the loop counting the pages of a bucket as written whether or not its
\* extraction returned a path
ExtractDocument_CountsFailures ==
    /\ pc = "extract"
    /\ doc_index <= Len(documents)
    /\ LET doc          == documents[doc_index]
           page_numbers == doc.page_numbers
           next_pc      == IF doc_index + 1 > Len(documents)
                           THEN "postcheck" ELSE "extract"
       IN  IF page_numbers = <<>>
           THEN \* continue
                /\ doc_index' = doc_index + 1
                /\ pc' = next_pc
                /\ UNCHANGED <<disk, output_files, written_pages, extractions, raised>>
           ELSE IF doc.document_type = None
           THEN \* None.lower() raises: the except branch ends the run
                /\ raised' = TRUE
                /\ pc' = "done"
                /\ UNCHANGED <<disk, doc_index, output_files, written_pages, extractions>>
           ELSE \E io_ok \in BOOLEAN :
                LET rng == <<SetMin(Range(page_numbers)), SetMax(Range(page_numbers))>>
                    r   == SplitPdfByPages(disk, pdf_path, rng,
                               SplitPath(pdf_path, Slugify(doc.document_type),
                                         page_numbers), io_ok)
                IN  /\ disk' = r.disk
                    /\ extractions' = Append(extractions,
                           [doc |-> doc_index, range |-> rng, ok |-> r.ok])
                    /\ output_files' =
                           IF r.ok
                           THEN Append(output_files,
                                    ArtifactEntry(r.path, doc.document_type,
                                        page_numbers, doc.suggested_filename))
                           ELSE output_files
                    /\ written_pages' = written_pages \cup Range(page_numbers)
                    /\ doc_index' = doc_index + 1
                    /\ pc' = next_pc
                    /\ raised' = raised
    /\ UNCHANGED <<documents, candidates, total_pages, pdf_path, usage>>
    /\ UNCHANGED <<cutVars, batchVars, folderVars, subprocessVars>>

\* one pass of the extraction loop over documents[doc_index]
ExtractDocument ==
    /\ pc = "extract"
    /\ doc_index <= Len(documents)
    /\ LET doc          == documents[doc_index]
           page_numbers == doc.page_numbers
           next_pc      == IF doc_index + 1 > Len(documents)
                           THEN "postcheck" ELSE "extract"
       IN  IF page_numbers = <<>>
           THEN \* continue
                /\ doc_index' = doc_index + 1
                /\ pc' = next_pc
                /\ UNCHANGED <<disk, output_files, written_pages, extractions, raised>>
           ELSE IF doc.document_type = None
           THEN \* None.lower() raises: the except branch ends the run
                /\ raised' = TRUE
                /\ pc' = "done"
                /\ UNCHANGED <<disk, doc_index, output_files, written_pages, extractions>>
           ELSE \E io_ok \in BOOLEAN :
                LET rng == <<SetMin(Range(page_numbers)), SetMax(Range(page_numbers))>>
                    r   == SplitPdfByPages(disk, pdf_path, rng,
                               SplitPath(pdf_path, Slugify(doc.document_type),
                                         page_numbers), io_ok)
                IN  /\ disk' = r.disk
                    /\ extractions' = Append(extractions,
                           [doc |-> doc_index, range |-> rng, ok |-> r.ok])
                    /\ output_files' =
                           IF r.ok
                           THEN Append(output_files,
                                    ArtifactEntry(r.path, doc.document_type,
                                        page_numbers, doc.suggested_filename))
                           ELSE output_files
                    /\ written_pages' =
                           IF r.ok THEN written_pages \cup Range(page_numbers)
                           ELSE written_pages
                    /\ doc_index' = doc_index + 1
                    /\ pc' = next_pc
                    /\ raised' = raised
    /\ UNCHANGED <<documents, candidates, total_pages, pdf_path, usage>>
    /\ UNCHANGED <<cutVars, batchVars, folderVars, subprocessVars>>

\* the reconciliation: documents gets the synthetic bucket appended in place
Reconcile ==
    /\ pc = "reconcile"
    /\ total_pages' = GetPdfPageCount(disk, pdf_path)
    /\ documents' = ReconcileDocuments(total_pages', documents)
    /\ doc_index' = 1
    /\ pc' = IF Len(documents') = 0 THEN "postcheck" ELSE "extract"
    /\ UNCHANGED <<disk, candidates, output_files, written_pages, extractions, raised,
                   pdf_path, usage>>
    /\ UNCHANGED <<cutVars, batchVars, folderVars, subprocessVars>>

\* split_pdf_documents returning without a look at the written pages
PostSplitCheck_Never ==
    /\ pc = "postcheck"
    /\ pc' = "done"
    /\ UNCHANGED <<disk, splitVars, cutVars, batchVars, folderVars, subprocessVars>>

\* the post-split verification and its one corrective extraction
PostSplitCheck ==
    /\ pc = "postcheck"
    /\ LET missing_after_split == SortedList((1..total_pages) \ written_pages)
       IN  IF missing_after_split = <<>>
           THEN UNCHANGED <<disk, output_files, extractions>>
           ELSE \E io_ok \in BOOLEAN :
                LET rng == <<SetMin(Range(missing_after_split)),
                             SetMax(Range(missing_after_split))>>
                    r   == SplitPdfByPages(disk, pdf_path, rng,
                               SplitPath(pdf_path, "unclassified-document",
                                         missing_after_split), io_ok)
                IN  /\ disk' = r.disk
                    /\ extractions' = Append(extractions,
                           [doc |-> 0, range |-> rng, ok |-> r.ok])
                    /\ output_files' =
                           IF r.ok
                           THEN Append(output_files,
                                    ArtifactEntry(r.path,
                                        "Unclassified Document (post-check)",
                                        missing_after_split,
                                        "unclassified_document_post_check"))
                           ELSE output_files
    /\ pc' = "done"
    /\ UNCHANGED <<documents, candidates, total_pages, doc_index, written_pages, raised,
                   pdf_path, usage>>
    /\ UNCHANGED <<cutVars, batchVars, folderVars, subprocessVars>>

----------------------------------------------------------------------------
(* The inputs of a split: a source of n pages and the classifier's buckets *)

\* lists of k page numbers; the classifier may name pages the PDF lacks
PageLists(n, k) == [1..k -> 0..(n + 1)]

\* every sequence of b page lists with at most t entries in all
RECURSIVE BucketPages(_, _, _)
BucketPages(n, b, t) ==
    IF b = 0 THEN {<<>>}
    ELSE UNION {{<<l>> \o rest : l \in PageLists(n, k),
                                 rest \in BucketPages(n, b - 1, t - k)} : k \in 0..t}

CandidatePages(n) == UNION {BucketPages(n, b, MaxListed) : b \in 0..MaxBuckets}

\* The classifier's buckets: bad is the bucket whose document_type is null
\* (0: none).  The run ends at the first such bucket it extracts, so a
\* second one would never be looked at.
CandidateBuckets(pages, bad) ==
    [i \in DOMAIN pages |->
        Bucket(IF i = bad THEN None ELSE "Invoice", pages[i], "doc", "r")]

IdleSplit ==
    /\ documents = <<>>
    /\ candidates = <<>>
    /\ total_pages = 0
    /\ doc_index = 0
    /\ output_files = <<>>
    /\ written_pages = {}
    /\ extractions = <<>>
    /\ raised = FALSE
    /\ pdf_path = <<>>
    /\ usage = NoUsage

IdleCut ==
    /\ request = <<>>
    /\ result = <<>>
    /\ disk_before = <<>>

IdleBatch ==
    /\ final_paths = <<>>
    /\ item_index = 0
    /\ split_pdf_array = <<>>
    /\ errors = <<>>
    /\ outcomes = <<>>
    /\ old_file_paths = <<>>
    /\ deleted = <<>>

IdleFolder ==
    /\ listing = <<>>
    /\ file_index = 0
    /\ results = <<>>
    /\ stages = <<>>

IdleSubprocess ==
    /\ input_json = <<>>
    /\ response_files = <<>>
    /\ token_collection = <<>>

InitSplit ==
    /\ \E n \in 0..MaxPages :
         /\ disk = (SourcePath :> PyRange(1, n + 1))
         /\ \E pages \in CandidatePages(n) : \E bad \in 0..Len(pages) :
              /\ candidates = CandidateBuckets(pages, bad)
              /\ documents = candidates
    /\ pdf_path = SourcePath
    /\ usage = Usage(1, 1)
    /\ pc = "reconcile"
    /\ total_pages = 0
    /\ doc_index = 0
    /\ output_files = <<>>
    /\ written_pages = {}
    /\ extractions = <<>>
    /\ raised = FALSE
    /\ IdleCut /\ IdleBatch /\ IdleFolder /\ IdleSubprocess

NextSplit == Reconcile \/ ExtractDocument \/ PostSplitCheck

SpecSplit == InitSplit /\ [][NextSplit]_vars

----------------------------------------------------------------------------
(* cut_pdf_by_page_numbers and the /cut_pdf route *)

\* <original>_pages_<start>_to_<end>.pdf, in the directory of the source
CutPath(path, start_page, end_page) ==
    <<Stem(path[1]), "pages", start_page, end_page>>

\* cut_pdf_by_page_numbers without the range validation, adding the pages that exist
CutPdfByPageNumbers_Clamped(d, source, start_page, end_page, io_ok) ==
    SplitPdfByPages(d, source, <<start_page, end_page>>,
                    CutPath(source, start_page, end_page), io_ok)

\* cut_pdf_by_page_numbers(pdf_path, start_page, end_page); io_ok is whether
\* the source could be parsed and the output written
CutPdfByPageNumbers(d, source, start_page, end_page, io_ok) ==
    LET out_path == CutPath(source, start_page, end_page)
        failed   == [ok |-> FALSE, path |-> out_path, disk |-> d]
    IN  IF source \notin DOMAIN d THEN failed
        ELSE LET total == Len(d[source])
             IN  IF ~(1 <= start_page /\ start_page <= end_page /\ end_page <= total)
                 THEN failed
                 ELSE IF ~io_ok THEN failed
                 ELSE [ok |-> TRUE, path |-> out_path,
                       disk |-> WriteFile(d, out_path,
                                    [k \in 1..(end_page - start_page + 1) |->
                                        d[source][start_page - 1 + k]])]

\* the page numbers a caller may pass
PageArgs == (-1)..(MaxPages + 1)

\* a direct call of cut_pdf_by_page_numbers on the source
CallCut ==
    /\ pc = "ready"
    /\ \E start_page, end_page \in PageArgs, io_ok \in BOOLEAN :
         LET r == CutPdfByPageNumbers(disk, SourcePath, start_page, end_page, io_ok)
         IN  /\ request' = [op |-> "cut_pdf_by_page_numbers",
                            start_page |-> start_page, end_page |-> end_page]
             /\ result' = [ok |-> r.ok, path |-> r.path,
                           status |-> IF r.ok THEN "200" ELSE "None"]
             /\ disk' = r.disk
    /\ disk_before' = disk
    /\ pc' = "returned"
    /\ UNCHANGED <<splitVars, batchVars, folderVars, subprocessVars>>

\* POST /cut_pdf: the route validates the page numbers, takes the first PDF of
\* the folder and calls cut_pdf_by_page_numbers on it
CutPdfRoute ==
    /\ pc = "ready"
    /\ \E start_page, end_page \in PageArgs, io_ok \in BOOLEAN :
         LET req == [op |-> "cut_pdf", start_page |-> start_page, end_page |-> end_page]
             rejected == [ok |-> FALSE,
                          path |-> CutPath(SourcePath, start_page, end_page),
                          status |-> "400"]
         IN  /\ request' = req
             /\ IF start_page < 1 \/ end_page < 1 \/ start_page > end_page
                   \/ SourcePath \notin DOMAIN disk
                THEN /\ result' = rejected
                     /\ disk' = disk
                ELSE LET r == CutPdfByPageNumbers(disk, SourcePath,
                                  start_page, end_page, io_ok)
                     IN  /\ result' = [ok |-> r.ok, path |-> r.path,
                                       status |-> IF r.ok THEN "200" ELSE "500"]
                         /\ disk' = r.disk
    /\ disk_before' = disk
    /\ pc' = "returned"
    /\ UNCHANGED <<splitVars, batchVars, folderVars, subprocessVars>>

\* the source PDF: missing, or of 0..MaxPages pages
InitCut ==
    /\ \/ disk = <<>>
       \/ \E n \in 0..MaxPages : disk = (SourcePath :> PyRange(1, n + 1))
    /\ pc = "ready"
    /\ IdleSplit /\ IdleCut /\ IdleBatch /\ IdleFolder /\ IdleSubprocess

NextCut == CallCut \/ CutPdfRoute

SpecCut == InitCut /\ [][NextCut]_vars

----------------------------------------------------------------------------
(* split_pdfs_by_final_paths *)

\* the files of the batch scenario: one source of two pages, two prior artifacts
BatchSource == <<"a.pdf">>
OldFiles    == {<<"old1">>, <<"old2">>}
BatchDisk   == [p \in {BatchSource} \cup OldFiles |->
                   IF p = BatchSource THEN <<1, 2>> ELSE <<1>>]

\* <original_base>_<pdf_name>_<start_page>_<end_page>.pdf next to the source
BatchPath(item) ==
    <<Stem(item.original_file_path[1]), item.pdf_name, item.start_page, item.end_page>>

\* The loop body of split_pdfs_by_final_paths for one item: what became of the
\* item, the error string it adds and the file system afterwards.  An item
\* without start_page makes int(None) raise; io_ok is whether the source
\* could be parsed and the new file written.
ProcessItem(d, item, io_ok) ==
    LET failed(kind) == [kind |-> kind, disk |-> d]
    IN  IF ~item.has_start_page
        THEN failed("Error processing item")
        ELSE IF item.original_file_path = <<>> \/ item.start_page = 0
                \/ item.end_page = 0 \/ item.pdf_name = ""
        THEN failed("Missing required fields in item")
        ELSE IF item.original_file_path \notin DOMAIN d
        THEN failed("Original file not found")
        ELSE IF ~io_ok
        THEN failed("Error processing item")
        ELSE IF ~(1 <= item.start_page /\ item.start_page <= item.end_page
                  /\ item.end_page <= Len(d[item.original_file_path]))
        THEN failed("Invalid page range")
        ELSE [kind |-> "ok",
              disk |-> WriteFile(d, BatchPath(item),
                           [k \in 1..(item.end_page - item.start_page + 1) |->
                               d[item.original_file_path][item.start_page - 1 + k]])]

\* the loop giving up at the first item that fails
NextItem_AbortOnError(i, kind) ==
    IF kind = "ok" THEN i + 1 ELSE Len(final_paths) + 1

\* where the loop goes after an item: `continue` and the except branch both
\* go on with the next item
NextItem(i, kind) == i + 1

\* the loop putting each new path in front of the paths it already has
CutItem_Prepends ==
    /\ pc = "batch"
    /\ item_index <= Len(final_paths)
    /\ \E io_ok \in BOOLEAN :
         LET item == final_paths[item_index]
             r    == ProcessItem(disk, item, io_ok)
         IN  /\ disk' = r.disk
             /\ split_pdf_array' = IF r.kind = "ok"
                                   THEN <<BatchPath(item)>> \o split_pdf_array
                                   ELSE split_pdf_array
             /\ errors' = IF r.kind = "ok" THEN errors ELSE Append(errors, r.kind)
             /\ outcomes' = Append(outcomes,
                    [item |-> item_index, kind |-> r.kind, io_ok |-> io_ok])
             /\ item_index' = NextItem(item_index, r.kind)
             /\ pc' = IF item_index' > Len(final_paths) THEN "returned" ELSE "batch"
    /\ UNCHANGED <<final_paths, old_file_paths, deleted>>
    /\ UNCHANGED <<splitVars, cutVars, folderVars, subprocessVars>>

\* one pass of the loop of split_pdfs_by_final_paths; after the last item the
\* function returns
CutItem ==
    /\ pc = "batch"
    /\ item_index <= Len(final_paths)
    /\ \E io_ok \in BOOLEAN :
         LET item == final_paths[item_index]
             r    == ProcessItem(disk, item, io_ok)
         IN  /\ disk' = r.disk
             /\ split_pdf_array' = IF r.kind = "ok"
                                   THEN Append(split_pdf_array, BatchPath(item))
                                   ELSE split_pdf_array
             /\ errors' = IF r.kind = "ok" THEN errors ELSE Append(errors, r.kind)
             /\ outcomes' = Append(outcomes,
                    [item |-> item_index, kind |-> r.kind, io_ok |-> io_ok])
             /\ item_index' = NextItem(item_index, r.kind)
             /\ pc' = IF item_index' > Len(final_paths) THEN "returned" ELSE "batch"
    /\ UNCHANGED <<final_paths, old_file_paths, deleted>>
    /\ UNCHANGED <<splitVars, cutVars, folderVars, subprocessVars>>

\* the old_file_paths of all groups, deduplicated into one deletion set
DeletionSet == UNION {Range(old_file_paths[g]) : g \in DOMAIN old_file_paths}

\* the caller deletes one file of the deletion set after the batch returned; a
\* failed deletion is collected as a warning
DeleteOldFile ==
    /\ pc = "returned"
    /\ \E f \in DeletionSet \ {deleted[k].path : k \in DOMAIN deleted} :
         \E removed \in BOOLEAN :
            /\ deleted' = Append(deleted, [path |-> f, removed |-> removed])
            /\ disk' = IF removed /\ f \in DOMAIN disk
                       THEN [p \in DOMAIN disk \ {f} |-> disk[p]]
                       ELSE disk
            /\ errors' = IF removed THEN errors
                         ELSE Append(errors, "Failed to delete old file")
    /\ UNCHANGED <<pc, final_paths, item_index, split_pdf_array, outcomes, old_file_paths>>
    /\ UNCHANGED <<splitVars, cutVars, folderVars, subprocessVars>>

\* The cut instructions a request may hold.  The page numbers of an item are
\* looked at only once its source was found, so the items naming a missing
\* source or none differ only in what the missing-fields test reads.
BatchItems ==
    {it \in [original_file_path : {BatchSource, <<"gone.pdf">>, <<>>},
             has_start_page : BOOLEAN,
             start_page : 0..(Len(BatchDisk[BatchSource]) + 1),
             end_page : 0..(Len(BatchDisk[BatchSource]) + 1),
             pdf_name : {"sec"}] :
        /\ ~it.has_start_page =>
              (it.original_file_path = BatchSource /\ it.start_page = 0 /\ it.end_page = 1)
        /\ it.original_file_path = <<"gone.pdf">> =>
              (it.start_page \in {0, 1} /\ it.end_page = 1)
        /\ it.original_file_path = <<>> => (it.start_page = 1 /\ it.end_page = 1)}

\* the old_file_paths of the groups: none, one group, two groups naming a file twice
OldFilePaths ==
    {<<>>, << <<(<<"old1">>)>> >>, << <<(<<"old1">>)>>, <<(<<"old1">>), (<<"old2">>)>> >>}

InitBatch ==
    /\ disk = BatchDisk
    /\ final_paths \in UNION {[1..k -> BatchItems] : k \in 0..MaxItems}
    /\ old_file_paths \in OldFilePaths
    /\ item_index = 1
    /\ pc = IF final_paths = <<>> THEN "returned" ELSE "batch"
    /\ split_pdf_array = <<>>
    /\ errors = <<>>
    /\ outcomes = <<>>
    /\ deleted = <<>>
    /\ IdleSplit /\ IdleCut /\ IdleFolder /\ IdleSubprocess

NextBatch == CutItem \/ DeleteOldFile

SpecBatch == InitBatch /\ [][NextBatch]_vars

----------------------------------------------------------------------------
(* process_folder *)

IsImageFile(filename) ==
    LowerExtension(filename) \in {"png", "jpg", "jpeg", "gif", "bmp", "tiff"}

IsPdfFile(filename) == LowerExtension(filename) = "pdf"

\* Route sending single-page PDFs through the pipeline as well
Route_SinglePageProcessed(entry, page_count) ==
    IF ~entry.isfile THEN "ignored"
    ELSE IF IsImageFile(entry.filename) THEN "skip_image"
    ELSE IF IsPdfFile(entry.filename)
         THEN IF page_count = 0 THEN "error_unreadable" ELSE "process"
    ELSE "skip_other"

\* what the loop body of process_folder does with a directory entry
Route(entry, page_count) ==
    IF ~entry.isfile THEN "ignored"
    ELSE IF IsImageFile(entry.filename) THEN "skip_image"
    ELSE IF IsPdfFile(entry.filename)
         THEN IF page_count = 0 THEN "error_unreadable"
              ELSE IF page_count = 1 THEN "skip_single"
              ELSE "process"
    ELSE "skip_other"

\* the loop giving up at the first file that fails
NextFile_AbortOnError(i, failed) == IF failed THEN Len(listing) + 1 ELSE i + 1

\* where the loop goes after a file: `continue` and the except branch both go
\* on with the next entry of the listing
NextFile(i, failed) == i + 1

\* pc after the file at position i is finished
FolderPc(i) == IF i > Len(listing) THEN "returned" ELSE "folder"

\* what analyze_pdf_with_gemini may return for a PDF of n pages without error:
\* no bucket, one bucket of all pages, one bucket whose document_type is null
FolderAnalyses(n) ==
    {<<>>,
     <<Bucket("Invoice", PyRange(1, n + 1), "doc", "r")>>,
     <<Bucket(None, <<1>>, "doc", "r")>>}

\* The loop body of process_folder up to the call of split_pdf_documents.
\* For a multi-page PDF the analysis returns an error, an exception reaches
\* the except branch of the loop, or the analysis result is handed to
\* split_pdf_documents (Reconcile, ExtractDocument, PostSplitCheck).
HandleFile ==
    /\ pc = "folder"
    /\ file_index <= Len(listing)
    /\ LET entry      == listing[file_index]
           file_path  == <<entry.filename>>
           page_count == GetPdfPageCount(disk, file_path)
           route      == Route(entry, page_count)
           log(ran, analysis) ==
               Append(stages, [filename |-> entry.filename, ran |-> ran,
                               analysis |-> analysis])
           skipped(reason) ==
               [results EXCEPT !.skipped_files =
                   Append(@, [filename |-> entry.filename, reason |-> reason,
                              path |-> file_path])]
           skipped_other(reason) ==
               [results EXCEPT !.skipped_files =
                   Append(@, [filename |-> entry.filename, reason |-> reason])]
           failed(error) ==
               [results EXCEPT !.errors =
                   Append(@, [filename |-> entry.filename, error |-> error])]
           goes_on(failure) ==
               /\ file_index' = NextFile(file_index, failure)
               /\ pc' = FolderPc(file_index')
               /\ UNCHANGED splitVars
       IN  CASE route = "ignored" ->
                  /\ results' = results
                  /\ stages' = log({}, "none")
                  /\ goes_on(FALSE)
             [] route = "skip_image" ->
                  /\ results' = skipped("Image file - skipped as requested")
                  /\ stages' = log({}, "none")
                  /\ goes_on(FALSE)
             [] route = "skip_other" ->
                  /\ results' = skipped_other("Not a PDF or image file")
                  /\ stages' = log({}, "none")
                  /\ goes_on(FALSE)
             [] route = "skip_single" ->
                  /\ results' = skipped("Single page PDF - skipped as requested")
                  /\ stages' = log({}, "none")
                  /\ goes_on(FALSE)
             [] route = "error_unreadable" ->
                  /\ results' = failed("Could not read PDF or empty PDF")
                  /\ stages' = log({}, "none")
                  /\ goes_on(TRUE)
             [] route = "process" ->
                  \/ /\ results' = failed("analysis error")
                     /\ stages' = log({"classify"}, "error")
                     /\ goes_on(TRUE)
                  \/ /\ results' = failed("exception")
                     /\ stages' = log({"classify"}, "raised")
                     /\ goes_on(TRUE)
                  \/ \E docs \in FolderAnalyses(page_count), u \in TokenUsages :
                       /\ results' = results
                       /\ usage' = u
                       /\ stages' = log({"classify"}, "ok")
                       /\ pdf_path' = file_path
                       /\ documents' = docs
                       /\ candidates' = docs
                       /\ total_pages' = 0
                       /\ doc_index' = 0
                       /\ output_files' = <<>>
                       /\ written_pages' = {}
                       /\ extractions' = <<>>
                       /\ raised' = FALSE
                       /\ file_index' = file_index
                       /\ pc' = "reconcile"
    /\ UNCHANGED <<disk, listing>>
    /\ UNCHANGED <<cutVars, batchVars, subprocessVars>>

\* split_pdf_documents returned: the file is recorded as processed and the
\* loop goes on
FinishSplit ==
    /\ pc = "done"
    /\ file_index \in DOMAIN listing
    /\ results' = [results EXCEPT
           !.processed_files =
               Append(@, [filename |-> listing[file_index].filename,
                          page_count |-> GetPdfPageCount(disk, pdf_path),
                          analysis |-> documents,
                          usage |-> usage,
                          output_files |-> output_files]),
           !.output_files = @ \o output_files]
    /\ stages' = [stages EXCEPT ![file_index].ran =
                     @ \cup {"reconcile", "extract"}
                       \cup (IF raised THEN {} ELSE {"verify"})]
    /\ file_index' = NextFile(file_index, FALSE)
    /\ pc' = FolderPc(file_index')
    /\ UNCHANGED <<disk, listing>>
    /\ UNCHANGED <<splitVars, cutVars, batchVars, subprocessVars>>

\* the entries a folder may hold: an image, a text file, a name without
\* extension (a file or a directory), PDFs of 0..MaxPages pages
FolderEntries ==
    [filename : {"photo.png", "notes.txt"}, isfile : {TRUE}, page_count : {0}]
    \cup [filename : {"archive"}, isfile : BOOLEAN, page_count : {0}]
    \cup [filename : {"scan.pdf", "SCAN.PDF"}, isfile : {TRUE},
          page_count : 0..MaxPages]

\* listings of distinct names
FolderListings ==
    {l \in UNION {[1..k -> FolderEntries] : k \in 0..MaxFiles} :
        \A i, j \in DOMAIN l : l[i].filename = l[j].filename => i = j}

InitFolder ==
    /\ \E l \in FolderListings :
         /\ listing = [i \in DOMAIN l |->
                          [filename |-> l[i].filename, isfile |-> l[i].isfile]]
         /\ disk = [p \in {<<l[i].filename>> : i \in {j \in DOMAIN l : l[j].isfile}} |->
                       LET i == CHOOSE j \in DOMAIN l : l[j].filename = p[1]
                       IN  PyRange(1, l[i].page_count + 1)]
         /\ pc = IF l = <<>> THEN "returned" ELSE "folder"
    /\ file_index = 1
    /\ results = [processed_files |-> <<>>, skipped_files |-> <<>>,
                  errors |-> <<>>, output_files |-> <<>>]
    /\ stages = <<>>
    /\ IdleSplit /\ IdleCut /\ IdleBatch /\ IdleSubprocess

NextFolder ==
    HandleFile \/ Reconcile \/ ExtractDocument \/ PostSplitCheck \/ FinishSplit

SpecFolder == InitFolder /\ [][NextFolder]_vars

----------------------------------------------------------------------------
(* process_folder_subprocess *)

\* `not folder_path`: the key is absent (get returns None) or the string is empty
Falsy(x) == x \in {None, ""}

\* input_tokens, output_tokens, total_tokens after the loop over
\* results["output_files"]: None before the first entry, and every entry
\* assigns its own counters to them
RECURSIVE LoopTokens(_, _, _)
LoopTokens(files, i, tokens) ==
    IF i > Len(files) THEN tokens
    ELSE LoopTokens(files, i + 1, files[i].usage)

\* `x if x is not None else 0` on the three counters
OrZero(tokens) ==
    [input_tokens  |-> IF tokens.given THEN tokens.input_tokens ELSE 0,
     output_tokens |-> IF tokens.given THEN tokens.output_tokens ELSE 0,
     total_tokens  |-> IF tokens.given THEN tokens.total_tokens ELSE 0]

\* file_info of an artifact
FileInfo(f) ==
    IF Len(f.page_numbers) > 1
    THEN [original_file_path |-> f.original_file_path, path |-> f.path,
          is_multipage |-> TRUE,
          start_page |-> SetMin(Range(f.page_numbers)),
          end_page |-> SetMax(Range(f.page_numbers))]
    ELSE [original_file_path |-> f.original_file_path, path |-> f.path,
          is_multipage |-> FALSE]

HasPath(skipped) == "path" \in DOMAIN skipped

SkippedInfo(skipped) ==
    [original_file_path |-> skipped.path, path |-> skipped.path,
     is_multipage |-> FALSE]

\* output_files_transformed: the artifacts, then the skipped files with a path
OutputFilesTransformed(res) ==
    [i \in DOMAIN res.output_files |-> FileInfo(res.output_files[i])]
    \o LET with_path == SelectSeq(res.skipped_files, HasPath)
       IN  [i \in DOMAIN with_path |-> SkippedInfo(with_path[i])]

SuccessOutput(res, tokens) ==
    [status |-> "success", status_code |-> "200",
     output_files |-> OutputFilesTransformed(res),
     input_tokens |-> OrZero(tokens).input_tokens,
     output_tokens |-> OrZero(tokens).output_tokens,
     total_tokens |-> OrZero(tokens).total_tokens]

ErrorOutput == [status |-> "error", status_code |-> "500"]

\* an exception of the try block leaving the function without a response file
ExceptBranch_Escapes(files) == files

\* the except branch followed by the write of file_<timestamp>.json
ExceptBranch(files) == Append(files, ErrorOutput)

\* The start of a pass: folder_path is read from the input; the constructor
\* of DocumentProcessor or os.listdir may raise; process_folder returns at
\* once for a folder that does not exist, else its loop starts.
StartSubprocess ==
    /\ pc = "subprocess"
    /\ \/ /\ Falsy(input_json.folder_path)
          /\ response_files' = ExceptBranch(response_files)
          /\ pc' = "responded"
          /\ UNCHANGED <<results, file_index>>
       \/ /\ ~Falsy(input_json.folder_path)
          /\ \/ /\ response_files' = ExceptBranch(response_files)
                /\ pc' = "responded"
                /\ UNCHANGED <<results, file_index>>
             \/ /\ input_json.folder_path = "missing"
                /\ results' = [processed_files |-> <<>>, skipped_files |-> <<>>,
                               errors |-> <<"Folder path does not exist">>,
                               output_files |-> <<>>]
                /\ pc' = "returned"
                /\ UNCHANGED <<response_files, file_index>>
             \/ /\ input_json.folder_path = "folder"
                /\ results' = [processed_files |-> <<>>, skipped_files |-> <<>>,
                               errors |-> <<>>, output_files |-> <<>>]
                /\ file_index' = 1
                /\ pc' = FolderPc(1)
                /\ UNCHANGED response_files
    /\ UNCHANGED <<disk, listing, stages, input_json, token_collection>>
    /\ UNCHANGED <<splitVars, cutVars, batchVars>>

\* process_folder returned: the results are transformed, the counters go to
\* the usage sink (store_token_usage only logs a failed insert) and the
\* response file is written
WriteResponse ==
    /\ pc = "returned"
    /\ LET tokens == LoopTokens(results.output_files, 1, NoUsage)
       IN  /\ \E stored \in BOOLEAN :
                token_collection' =
                    IF stored
                    THEN Append(token_collection,
                             [input_tokens |-> OrZero(tokens).input_tokens,
                              output_tokens |-> OrZero(tokens).output_tokens,
                              total_tokens |-> OrZero(tokens).total_tokens,
                              context |-> input_json.folder_path])
                    ELSE token_collection
           /\ response_files' = Append(response_files, SuccessOutput(results, tokens))
    /\ pc' = "responded"
    /\ UNCHANGED <<disk, input_json>>
    /\ UNCHANGED <<splitVars, cutVars, batchVars, folderVars>>

InitSubprocess ==
    /\ \E folder_path \in {None, "", "missing", "folder"} :
         /\ input_json = [folder_path |-> folder_path]
         /\ \E l \in FolderListings :
              /\ folder_path # "folder" => l = <<>>
              /\ listing = [i \in DOMAIN l |->
                               [filename |-> l[i].filename, isfile |-> l[i].isfile]]
              /\ disk = [p \in {<<l[i].filename>> : i \in {j \in DOMAIN l : l[j].isfile}} |->
                            LET i == CHOOSE j \in DOMAIN l : l[j].filename = p[1]
                            IN  PyRange(1, l[i].page_count + 1)]
    /\ pc = "subprocess"
    /\ response_files = <<>>
    /\ token_collection = <<>>
    /\ file_index = 0
    /\ results = <<>>
    /\ stages = <<>>
    /\ IdleSplit /\ IdleCut /\ IdleBatch

NextSubprocess ==
    \/ StartSubprocess
    \/ HandleFile \/ Reconcile \/ ExtractDocument \/ PostSplitCheck \/ FinishSplit
    \/ WriteResponse

SpecSubprocess == InitSubprocess /\ [][NextSubprocess]_vars

----------------------------------------------------------------------------
(* Claims about split_pdf_documents, checked under SpecSplit *)

\* the source's true page count
SourcePages == Len(disk[pdf_path])

\* the reconciliation of the run has happened
Reconciled == pc \in {"extract", "postcheck", "done"}

\* the union of page_numbers over the artifacts of the output list
ArtifactPages == UNION {Range(output_files[i].page_numbers) : i \in DOMAIN output_files}

\* the pages the classifier's buckets cover, and those they leave out
CoveredPages == UNION {Range(candidates[i].page_numbers) : i \in DOMAIN candidates}
MissingPages == (1..SourcePages) \ CoveredPages

\* C1: when split_pdf_documents returns, the union of page_numbers over the
\* artifacts of the output list is exactly {1..N}, whatever extractions failed.
C1_FullCoverage == pc = "done" => ArtifactPages = 1..SourcePages

\* C2: the buckets used for extraction are the classifier's buckets in their
\* order, followed by exactly one synthetic bucket ("Unclassified Document",
\* the missing pages ascending, "unclassified_document") when pages are
\* missing and by none otherwise; their pages then contain {1..total_pages}.
C2_Reconciliation ==
    Reconciled =>
        LET k == Len(candidates)
        IN  /\ total_pages = SourcePages
            /\ Len(documents) >= k
            /\ \A i \in 1..k : documents[i] = candidates[i]
            /\ IF MissingPages = {}
               THEN Len(documents) = k
               ELSE /\ Len(documents) = k + 1
                    /\ documents[k + 1].document_type = "Unclassified Document"
                    /\ documents[k + 1].suggested_filename = "unclassified_document"
                    /\ Range(documents[k + 1].page_numbers) = MissingPages
                    /\ \A i, j \in DOMAIN documents[k + 1].page_numbers :
                          i < j => documents[k + 1].page_numbers[i]
                                     < documents[k + 1].page_numbers[j]
            /\ \A p \in 1..total_pages :
                  \E i \in DOMAIN documents : p \in Range(documents[i].page_numbers)

\* C2's case: a gap of two pages behind a classifier bucket got its synthetic bucket
C2_Witness ==
    /\ Reconciled
    /\ Len(candidates) >= 1
    /\ Cardinality(MissingPages) >= 2
    /\ Len(documents) = Len(candidates) + 1

\* the output entry the k-th extraction call produced: successful calls append in order
EntryOf(k) == Cardinality({c \in 1..k : extractions[c].ok})

\* C3: two classifier buckets that both list page p and are both extracted
\* give two separate artifacts that both record p; reconciliation removes no
\* page from a bucket.
C3_NoOverlapCollapse ==
    /\ Reconciled =>
          \A i \in DOMAIN candidates :
              documents[i].page_numbers = candidates[i].page_numbers
    /\ \A a, b \in DOMAIN extractions :
          ( /\ a < b
            /\ extractions[a].ok /\ extractions[b].ok
            /\ extractions[a].doc \in DOMAIN candidates
            /\ extractions[b].doc \in DOMAIN candidates )
          => \A p \in Range(candidates[extractions[a].doc].page_numbers)
                        \cap Range(candidates[extractions[b].doc].page_numbers) :
                /\ EntryOf(a) < EntryOf(b)
                /\ EntryOf(b) <= Len(output_files)
                /\ p \in Range(output_files[EntryOf(a)].page_numbers)
                /\ p \in Range(output_files[EntryOf(b)].page_numbers)

\* C3's case: both of two overlapping classifier buckets were extracted
C3_Witness ==
    /\ pc = "done"
    /\ Len(candidates) = 2
    /\ Range(candidates[1].page_numbers) \cap Range(candidates[2].page_numbers) # {}
    /\ \E a, b \in DOMAIN extractions :
          /\ extractions[a].doc = 1 /\ extractions[a].ok
          /\ extractions[b].doc = 2 /\ extractions[b].ok
    /\ Len(output_files) >= 2

\* C4: reconciling twice gives what reconciling once gives: a second
\* reconciliation of the classifier's input gives the same buckets, and one of
\* the already reconciled analysis result changes nothing.
C4_IdempotentReconciliation ==
    Reconciled =>
        /\ ReconcileDocuments(total_pages, candidates) = documents
        /\ ReconcileDocuments(total_pages, documents) = documents

\* C4's case: the first reconciliation appended a synthetic bucket
C4_Witness ==
    /\ Reconciled
    /\ Len(documents) = Len(candidates) + 1
    /\ documents[Len(documents)].document_type = "Unclassified Document"

\* C5: a split_pdf_by_pages call of the split path with lowest < 1, lowest >
\* highest or highest > total_pages fails: it returns no artifact path.
C5_RangeValidated ==
    \A k \in DOMAIN extractions :
        LET lo == extractions[k].range[1]
            hi == extractions[k].range[2]
        IN  (lo < 1 \/ lo > hi \/ hi > SourcePages) => ~extractions[k].ok

----------------------------------------------------------------------------
(* Claims about cut_pdf_by_page_numbers, checked under SpecCut *)

CutRangeValid ==
    /\ SourcePath \in DOMAIN disk_before
    /\ 1 <= request.start_page
    /\ request.start_page <= request.end_page
    /\ request.end_page <= Len(disk_before[SourcePath])

\* C6: a cut succeeds only if the source exists and 1 <= start <= end <= page
\* count; it then returns <original>_pages_<start>_to_<end>.pdf holding
\* exactly the pages start..end ascending; with a missing source or an invalid
\* range it returns the failure value and no file is created or modified.
C6_CutOperation ==
    pc = "returned" =>
        /\ result.ok =>
              /\ CutRangeValid
              /\ result.path = <<"combined", "pages", request.start_page, request.end_page>>
              /\ result.path \in DOMAIN disk
              /\ Len(disk[result.path]) = request.end_page - request.start_page + 1
              /\ \A k \in DOMAIN disk[result.path] :
                    disk[result.path][k] = request.start_page + k - 1
              /\ DOMAIN disk = DOMAIN disk_before \cup {result.path}
              /\ \A p \in DOMAIN disk_before : disk[p] = disk_before[p]
        /\ ~CutRangeValid => (~result.ok /\ disk = disk_before)

\* C6's case: a cut of two or more pages out of the middle or end succeeded
C6_Witness ==
    /\ pc = "returned"
    /\ result.ok
    /\ request.start_page > 1
    /\ request.end_page > request.start_page

----------------------------------------------------------------------------
(* Claims about split_pdfs_by_final_paths, checked under SpecBatch *)

\* the item can be cut: its fields are there, its source exists, its range is valid
ItemValid(item) ==
    /\ item.has_start_page
    /\ item.original_file_path \in DOMAIN BatchDisk
    /\ 1 <= item.start_page
    /\ item.start_page <= item.end_page
    /\ item.end_page <= Len(BatchDisk[item.original_file_path])

\* the item fails: it is not valid, or processing it raises
ItemFails(k) == ~ItemValid(final_paths[outcomes[k].item]) \/ ~outcomes[k].io_ok

\* C7: an item with missing fields, a nonexistent source or an invalid range,
\* or one that raises, adds one error string and no artifact; every other
\* item, before or after it, produces its artifact; no item ends the batch.
C7_BestEffortBatch ==
    /\ \A k \in DOMAIN outcomes :
          /\ outcomes[k].item = k
          /\ ItemFails(k) <=> outcomes[k].kind # "ok"
          /\ ~ItemFails(k) =>
                LET item == final_paths[k]
                    path == <<"a", item.pdf_name, item.start_page, item.end_page>>
                IN  /\ \E a \in DOMAIN split_pdf_array : split_pdf_array[a] = path
                    /\ path \in DOMAIN disk
                    /\ disk[path] = [j \in 1..(item.end_page - item.start_page + 1) |->
                                        item.start_page + j - 1]
    /\ Len(split_pdf_array) = Cardinality({k \in DOMAIN outcomes : ~ItemFails(k)})
    /\ Cardinality({e \in DOMAIN errors : errors[e] # "Failed to delete old file"})
          = Cardinality({k \in DOMAIN outcomes : ItemFails(k)})
    /\ pc = "returned" => Len(outcomes) = Len(final_paths)

\* C7's case: the first item of a batch failed and a later one produced its artifact
C7_Witness ==
    /\ pc = "returned"
    /\ Len(outcomes) >= 2
    /\ outcomes[1].kind = "Original file not found"
    /\ outcomes[2].kind = "ok"
    /\ Len(split_pdf_array) = 1
    /\ Len(errors) = 1

----------------------------------------------------------------------------
(* Claims about process_folder, checked under SpecFolder *)

\* the loop is done with the k-th entry of the listing
Finished(k) == k \in DOMAIN stages /\ (k < file_index \/ pc = "returned")

\* how many entries of a list of results name the file
Entries(list, filename) ==
    Cardinality({i \in DOMAIN list : list[i].filename = filename})

PageCountOf(k) == GetPdfPageCount(disk, <<listing[k].filename>>)

IsImage(k)        == listing[k].filename \in {"photo.png"}
IsPdf(k)          == listing[k].filename \in {"scan.pdf", "SCAN.PDF"}
IsMultiPagePdf(k) == IsPdf(k) /\ PageCountOf(k) >= 2

\* no artifact of the output list comes from the k-th entry
NoArtifactOf(k) ==
    \A i \in DOMAIN results.output_files :
        results.output_files[i].original_file_path # <<listing[k].filename>>

\* what both readings of the routing agree on: images and single-page PDFs
\* are skipped untouched, a PDF of page count 0 is an error
SkipsAndErrors(k) ==
    /\ (IsImage(k) \/ (IsPdf(k) /\ PageCountOf(k) = 1)) =>
          /\ Entries(results.skipped_files, listing[k].filename) = 1
          /\ stages[k].ran = {}
          /\ NoArtifactOf(k)
    /\ (IsPdf(k) /\ PageCountOf(k) = 0) =>
          /\ Entries(results.errors, listing[k].filename) = 1
          /\ stages[k].ran = {}
          /\ NoArtifactOf(k)

SplitRaises(k) ==
    \E i \in DOMAIN results.processed_files :
        /\ results.processed_files[i].filename = listing[k].filename
        /\ \E d \in DOMAIN results.processed_files[i].analysis :
              /\ results.processed_files[i].analysis[d].document_type = None
              /\ results.processed_files[i].analysis[d].page_numbers # <<>>

C10_ErrorIsolation ==
    /\ \A k \in DOMAIN listing :
          Finished(k) =>
              LET f == listing[k].filename
                  n == Entries(results.processed_files, f)
                         + Entries(results.skipped_files, f)
                         + Entries(results.errors, f)
              IN  /\ stages[k].filename = f
                  /\ n = IF listing[k].isfile THEN 1 ELSE 0
                  /\ ( \/ stages[k].analysis \in {"error", "raised"}
                       \/ (listing[k].isfile /\ IsPdf(k) /\ PageCountOf(k) = 0) )
                        => Entries(results.errors, f) = 1
    /\ pc = "returned" => Len(stages) = Len(listing)

\* C10's case: the first file failed in the classifier and the second was processed
C10_Witness ==
    /\ pc = "returned"
    /\ Len(listing) = 2
    /\ stages[1].analysis \in {"error", "raised"}
    /\ Entries(results.errors, listing[1].filename) = 1
    /\ Entries(results.processed_files, listing[2].filename) = 1

----------------------------------------------------------------------------
(* Claims about process_folder_subprocess, checked under SpecSubprocess *)

\* the pass ended with a response of status success
Succeeded ==
    /\ pc = "responded"
    /\ Len(response_files) = 1
    /\ response_files[1].status = "success"

\* the counters of all analyses of the pass added up: one analysis per entry
\* of processed_files, an analysis without usage metadata counting as 0
RECURSIVE AggregateUsage(_, _)
AggregateUsage(processed, field) ==
    IF processed = <<>> THEN 0
    ELSE OrZero(Head(processed).usage)[field]
           + AggregateUsage(Tail(processed), field)

\* C11: the input_tokens, output_tokens and total_tokens a pass reports, in
\* its response and to the usage sink, are the aggregate over all analyses of
\* the pass, i.e. over every multi-page PDF that was classified.
C11_AggregatedUsage ==
    Succeeded =>
        \A field \in {"input_tokens", "output_tokens", "total_tokens"} :
            /\ response_files[1][field]
                  = AggregateUsage(results.processed_files, field)
            /\ \A i \in DOMAIN token_collection :
                  token_collection[i][field]
                     = AggregateUsage(results.processed_files, field)

\* the pass stands at a step that cannot be taken, without having responded
Stuck ==
    \/ pc \notin {"subprocess", "folder", "reconcile", "extract", "postcheck",
                  "done", "returned", "responded"}
    \/ pc = "folder" /\ file_index \notin DOMAIN listing
    \/ pc = "extract" /\ doc_index \notin DOMAIN documents
    \/ pc = "done" /\ file_index \notin DOMAIN listing

\* C12: every invocation of process_folder_subprocess, whether processing
\* succeeds or raises (a missing folder_path included), ends by writing exactly
\* one response file whose status is "success" or "error"; it never ends
\* without one, and the response of a pass without folder_path is an error.
C12_StructuredOutcome ==
    /\ Len(response_files) <= 1
    /\ pc = "responded" <=> Len(response_files) = 1
    /\ \A i \in DOMAIN response_files :
          response_files[i].status \in {"success", "error"}
    /\ (pc = "responded" /\ Falsy(input_json.folder_path)) =>
          response_files[1].status = "error"
    /\ ~Stuck

\* C12's case: a pass without folder_path ended with its error response
C12_Witness ==
    /\ pc = "responded"
    /\ Falsy(input_json.folder_path)
    /\ response_files = <<ErrorOutput>>

----------------------------------------------------------------------------
(* Claims about the extraction loop and the post-split check of            *)
(* split_pdf_documents, checked under SpecSplit                            *)

\* C13: when total_pages is 0, the reconciliation yields an empty bucket
\* sequence: no candidate bucket is extracted and no artifact is produced
\* (and an error reaches the caller).
C13_ZeroPageReconciliation ==
    (Reconciled /\ total_pages = 0) =>
        /\ documents = <<>>
        /\ extractions = <<>>
        /\ output_files = <<>>

\* the calls of split_pdf_by_pages made by the post-split check
Corrective == {c \in DOMAIN extractions : extractions[c].doc = 0}

\* the artifacts labelled by the post-split check
PostCheckEntries ==
    {i \in DOMAIN output_files :
        output_files[i].document_type = "Unclassified Document (post-check)"}

\* C14: once all bucket extractions of a run have been attempted, if
\* still_missing = {1..total_pages} \ written is non-empty then exactly one
\* corrective extraction is issued, over min(still_missing)..max(still_missing),
\* and when it succeeds its artifact, labelled "Unclassified Document
\* (post-check)" with the pages still_missing ascending, is the last of the
\* result; if still_missing is empty no corrective extraction is issued.
C14_PostSplitTrigger ==
    (pc = "done" /\ ~raised) =>
        LET still_missing == (1..total_pages) \ written_pages
            last          == Len(extractions)
        IN  IF still_missing = {}
            THEN Corrective = {} /\ PostCheckEntries = {}
            ELSE /\ Corrective = {last}
                 /\ extractions[last].range[1] \in still_missing
                 /\ extractions[last].range[2] \in still_missing
                 /\ \A p \in still_missing :
                       /\ extractions[last].range[1] <= p
                       /\ p <= extractions[last].range[2]
                 /\ IF extractions[last].ok
                    THEN /\ PostCheckEntries = {Len(output_files)}
                         /\ LET pages == output_files[Len(output_files)].page_numbers
                            IN  /\ Range(pages) = still_missing
                                /\ Len(pages) = Cardinality(still_missing)
                                /\ \A i, j \in DOMAIN pages :
                                      i < j => pages[i] < pages[j]
                    ELSE PostCheckEntries = {}

\* C14's case: pages 1 and 3 were still missing after the loop and the
\* corrective extraction over 1..3 produced the last artifact
C14_Witness ==
    /\ pc = "done" /\ ~raised
    /\ written_pages = {2}
    /\ total_pages = 3
    /\ extractions[Len(extractions)] = [doc |-> 0, range |-> <<1, 3>>, ok |-> TRUE]
    /\ output_files[Len(output_files)].page_numbers = <<1, 3>>

\* the bucket extractions that returned a path
Extracted == {k \in DOMAIN extractions : extractions[k].doc >= 1 /\ extractions[k].ok}

\* C15: when the post-split check runs, written is exactly the union of
\* page_numbers of the buckets whose extraction returned a path, and each of
\* them has its entry in the output list; a bucket whose extraction failed
\* adds no page and no entry, and every bucket with pages was attempted once,
\* whatever failed before it.
C15_WrittenSetAccounting ==
    pc = "postcheck" =>
        /\ written_pages =
              UNION {Range(documents[extractions[k].doc].page_numbers) : k \in Extracted}
        /\ Len(output_files) = Cardinality(Extracted)
        /\ \A k \in Extracted :
              output_files[EntryOf(k)].page_numbers
                 = documents[extractions[k].doc].page_numbers
        /\ \A d \in DOMAIN documents :
              Cardinality({k \in DOMAIN extractions : extractions[k].doc = d})
                 = IF documents[d].page_numbers = <<>> THEN 0 ELSE 1

\* C15's case: the first bucket failed, the second was extracted after it and
\* only its pages are written
C15_Witness ==
    /\ pc = "postcheck"
    /\ Len(extractions) = 2
    /\ ~extractions[1].ok /\ extractions[2].ok
    /\ Len(output_files) = 1
    /\ written_pages = Range(documents[extractions[2].doc].page_numbers)
    /\ Range(documents[extractions[1].doc].page_numbers) \cap written_pages = {}

----------------------------------------------------------------------------
(* Claims about process_folder as the caller of split_pdf_documents,       *)
(* checked under SpecFolder                                                *)

\* C16: in one run of split_pdf_documents the corrective extraction is
\* attempted at most once, no extraction follows it, and when it fails the
\* caller is told: the results of process_folder hold an error for the file.
C16_SingleCorrectivePass ==
    /\ Cardinality(Corrective) <= 1
    /\ \A c \in Corrective : c = Len(extractions)
    /\ ( /\ pc \in {"folder", "returned"}
         /\ \E c \in Corrective : ~extractions[c].ok )
       => Entries(results.errors, pdf_path[1]) >= 1

----------------------------------------------------------------------------
(* Claims about the artifacts of split_pdf_documents, checked under        *)
(* SpecSplit                                                               *)

\* the bucket's pages form a page set of the source: all within 1..total_pages
IsPageSet(pages) == pages # <<>> /\ Range(pages) \subseteq 1..total_pages

\* C17: the artifact written for a bucket whose pages form a non-empty page
\* set of the source holds the source pages min(pages)..max(pages) in
\* ascending order, whatever the order or contiguity of the listed pages, and
\* its entry records the listed pages as they were; a bucket with an empty
\* page list is not extracted, and every artifact comes from an extraction.
C17_PageSetExtraction ==
    /\ \A k \in Extracted :
          LET pages == documents[extractions[k].doc].page_numbers
          IN  IsPageSet(pages) =>
                 /\ EntryOf(k) <= Len(output_files)
                 /\ output_files[EntryOf(k)].page_numbers = pages
                 /\ output_files[EntryOf(k)].path \in DOMAIN disk
                 /\ disk[output_files[EntryOf(k)].path]
                       = PyRange(SetMin(Range(pages)), SetMax(Range(pages)) + 1)
    /\ \A k \in DOMAIN extractions :
          extractions[k].doc >= 1 =>
              documents[extractions[k].doc].page_numbers # <<>>
    /\ Len(output_files)
          = Cardinality({k \in DOMAIN extractions : extractions[k].ok})

\* C17's case: the bucket [3, 1] gave an artifact of pages 1, 2, 3 recorded
\* as [3, 1], and the empty bucket behind it was passed over
C17_Witness ==
    /\ pc = "done" /\ ~raised
    /\ Len(candidates) = 2
    /\ candidates[1].page_numbers = <<3, 1>>
    /\ candidates[2].page_numbers = <<>>
    /\ extractions[1].doc = 1 /\ extractions[1].ok
    /\ output_files[1].page_numbers = <<3, 1>>
    /\ disk[output_files[1].path] = <<1, 2, 3>>
    /\ \A k \in DOMAIN extractions : extractions[k].doc # 2

----------------------------------------------------------------------------
(* Claims about the outcome lists of split_pdfs_by_final_paths, checked    *)
(* under SpecBatch                                                         *)

\* the items that produced a path, in the order of the input list
RECURSIVE CutItems(_)
CutItems(k) ==
    IF k = 0 THEN <<>>
    ELSE IF outcomes[k].kind = "ok" THEN Append(CutItems(k - 1), k)
    ELSE CutItems(k - 1)

\* the error strings of the items (the deletion of old files adds its own
\* warnings to the list after the function returned)
ItemErrors == SelectSeq(errors, LAMBDA e : e # "Failed to delete old file")

\* C18: each of the k items of the list gives exactly one outcome, a path in
\* split_pdf_array or a string in errors, so that on return
\* len(split_pdf_array) + len(errors) = k, and the paths of split_pdf_array
\* are those of the items that succeeded, in the order of the input list.
C18_OutcomeAccounting ==
    /\ \A k \in DOMAIN outcomes : outcomes[k].item = k
    /\ Len(split_pdf_array) + Len(ItemErrors) = Len(outcomes)
    /\ pc = "returned" => Len(outcomes) = Len(final_paths)
    /\ (pc = "returned" /\ deleted = <<>>) =>
          Len(split_pdf_array) + Len(errors) = Len(final_paths)
    /\ split_pdf_array =
          [a \in DOMAIN CutItems(Len(outcomes)) |->
              BatchPath(final_paths[CutItems(Len(outcomes))[a]])]

\* C18's case: both items of a batch were cut, into different files, and
\* their paths stand in the order of the items
C18_Witness ==
    /\ pc = "returned"
    /\ deleted = <<>>
    /\ Len(final_paths) = 2
    /\ Len(split_pdf_array) = 2
    /\ split_pdf_array[1] # split_pdf_array[2]
    /\ split_pdf_array[1] = BatchPath(final_paths[1])

====
